---- MODULE Spec2Model ----
(***************************************************************************)
(* Model of the invoice field-extraction engine of src-tauri/src/invoice.rs *)
(* (InvoiceParser, validate_invoice).  Text is a TLA+ string over ASCII;    *)
(* the regex cascades of InvoiceParser::new are kept as pattern values and  *)
(* run by a leftmost-first backtracking matcher, as the regex crate does.   *)
(* f64 confidences are exact rationals in units of 1/6000; money amounts    *)
(* are integer cents.                                                       *)
(***************************************************************************)
EXTENDS Integers, Sequences, FiniteSets, TLC

VARIABLES
    overflow_checks,  \* build profile: TRUE = debug (overflow panics), FALSE = release (wraps)
    pc,               \* position of the caller
    abn_arg,          \* argument of a direct validate_abn call
    abn_ret,          \* its outcome
    text,             \* argument of parse_from_text
    parsed,           \* outcome of parse_from_text
    record,           \* the ExtractedInvoice handed to validate_invoice
    verdict           \* InvoiceValidationResult

vars == <<overflow_checks, pc, abn_arg, abn_ret, text, parsed, record, verdict>>

-----------------------------------------------------------------------------
(* Characters *)

Digit == {"0", "1", "2", "3", "4", "5", "6", "7", "8", "9"}

LowerAlpha == {"a", "b", "c", "d", "e", "f", "g", "h", "i", "j", "k", "l", "m",
               "n", "o", "p", "q", "r", "s", "t", "u", "v", "w", "x", "y", "z"}

UpperAlpha == {"A", "B", "C", "D", "E", "F", "G", "H", "I", "J", "K", "L", "M",
               "N", "O", "P", "Q", "R", "S", "T", "U", "V", "W", "X", "Y", "Z"}

Alpha == LowerAlpha \cup UpperAlpha

\* \s of the regex crate and char::is_whitespace, restricted to ASCII
Space == {" ", "\t", "\n", "\r", "\f"}

\* \w of the regex crate, restricted to ASCII
Word == Alpha \cup Digit \cup {"_"}

AsciiControl == {"\t", "\n", "\r", "\f"}

ToLowerTable ==
    "A" :> "a" @@ "B" :> "b" @@ "C" :> "c" @@ "D" :> "d" @@ "E" :> "e" @@
    "F" :> "f" @@ "G" :> "g" @@ "H" :> "h" @@ "I" :> "i" @@ "J" :> "j" @@
    "K" :> "k" @@ "L" :> "l" @@ "M" :> "m" @@ "N" :> "n" @@ "O" :> "o" @@
    "P" :> "p" @@ "Q" :> "q" @@ "R" :> "r" @@ "S" :> "s" @@ "T" :> "t" @@
    "U" :> "u" @@ "V" :> "v" @@ "W" :> "w" @@ "X" :> "x" @@ "Y" :> "y" @@
    "Z" :> "z"

ToUpperTable ==
    "a" :> "A" @@ "b" :> "B" @@ "c" :> "C" @@ "d" :> "D" @@ "e" :> "E" @@
    "f" :> "F" @@ "g" :> "G" @@ "h" :> "H" @@ "i" :> "I" @@ "j" :> "J" @@
    "k" :> "K" @@ "l" :> "L" @@ "m" :> "M" @@ "n" :> "N" @@ "o" :> "O" @@
    "p" :> "P" @@ "q" :> "Q" @@ "r" :> "R" @@ "s" :> "S" @@ "t" :> "T" @@
    "u" :> "U" @@ "v" :> "V" @@ "w" :> "W" @@ "x" :> "X" @@ "y" :> "Y" @@
    "z" :> "Z"

DigitValue ==
    "0" :> 0 @@ "1" :> 1 @@ "2" :> 2 @@ "3" :> 3 @@ "4" :> 4 @@
    "5" :> 5 @@ "6" :> 6 @@ "7" :> 7 @@ "8" :> 8 @@ "9" :> 9

DigitChar == <<"0", "1", "2", "3", "4", "5", "6", "7", "8", "9">>

CharAt(s, i) == SubSeq(s, i, i)

Min(set) == CHOOSE x \in set : \A y \in set : x <= y
Max(set) == CHOOSE x \in set : \A y \in set : x >= y

RECURSIVE MapChars(_, _)
\* s with every character that table maps replaced by its image (by halves, to
\* keep the evaluation shallow)
MapChars(table, s) ==
    IF Len(s) = 0 THEN ""
    ELSE IF Len(s) = 1 THEN (IF s \in DOMAIN table THEN table[s] ELSE s)
    ELSE LET h == Len(s) \div 2
         IN MapChars(table, SubSeq(s, 1, h)) \o MapChars(table, SubSeq(s, h + 1, Len(s)))

\* str::to_lowercase / str::to_uppercase on ASCII
ToLowercase(s) == MapChars(ToLowerTable, s)
ToUppercase(s) == MapChars(ToUpperTable, s)

RECURSIVE ReplaceChars(_, _, _)
\* str::replace for one-character patterns: every character of s in set replaced by by
ReplaceChars(s, set, by) ==
    IF Len(s) = 0 THEN ""
    ELSE IF Len(s) = 1 THEN (IF s \in set THEN by ELSE s)
    ELSE LET h == Len(s) \div 2
         IN ReplaceChars(SubSeq(s, 1, h), set, by) \o ReplaceChars(SubSeq(s, h + 1, Len(s)), set, by)

RemoveChar(s, c) == ReplaceChars(s, {c}, "")

\* str::trim
Trim(s) ==
    LET keep == {i \in 1..Len(s) : CharAt(s, i) \notin Space}
    IN IF keep = {} THEN "" ELSE SubSeq(s, Min(keep), Max(keep))

AllChars(s, set) == \A i \in 1..Len(s) : CharAt(s, i) \in set

AnyChar(s, set) == \E i \in 1..Len(s) : CharAt(s, i) \in set

StartsWith(s, p) == Len(p) <= Len(s) /\ SubSeq(s, 1, Len(p)) = p

\* str::find: the index of the first occurrence of p in s, 0 if none
Find(s, p) ==
    LET hits == {i \in 1..(Len(s) - Len(p) + 1) : SubSeq(s, i, i + Len(p) - 1) = p}
    IN IF hits = {} THEN 0 ELSE Min(hits)

Contains(s, p) == Find(s, p) # 0

RECURSIVE SplitLines(_, _)
\* str::lines: split at "\n", a "\r" before it dropped, no empty last line
SplitLines(s, from) ==
    LET strip(l) == IF Len(l) > 0 /\ CharAt(l, Len(l)) = "\r"
                    THEN SubSeq(l, 1, Len(l) - 1) ELSE l
        nl == {i \in from..Len(s) : CharAt(s, i) = "\n"}
    IN IF from > Len(s) THEN <<>>
       ELSE IF nl = {} THEN <<strip(SubSeq(s, from, Len(s)))>>
       ELSE <<strip(SubSeq(s, from, Min(nl) - 1))>> \o SplitLines(s, Min(nl) + 1)

Lines(s) == SplitLines(s, 1)

-----------------------------------------------------------------------------
(* Regular expressions: pattern values and the matcher *)

Lit(str) == [t |-> "lit", s |-> str]
Cls(set) == [t |-> "run", c |-> set, lo |-> 1, hi |-> 1]
\* set{lo,hi}, greedy; hi = -1: unbounded
Run(set, lo, hi) == [t |-> "run", c |-> set, lo |-> lo, hi |-> hi]
Cat(a) == [t |-> "cat", a |-> a]
Alt(a) == [t |-> "alt", a |-> a]
Opt(r) == [t |-> "opt", r |-> r]
Cap(r) == [t |-> "cap", r |-> r]
WordBoundary == [t |-> "wb"]
CapStart == [t |-> "cs"]
CapEnd == [t |-> "ce"]

NoMatch == [start |-> 0, end |-> 0, cs |-> 0, ce |-> 0]

IsWordAt(s, i) == i >= 1 /\ i <= Len(s) /\ CharAt(s, i) \in Word

RECURSIVE Match(_, _, _)
RECURSIVE MatchAlt(_, _, _, _)

\* Match(k, s, i): the regex nodes of k matched one after the other from index i
\* of s, alternatives and repetitions tried in the order a backtracking engine
\* tries them (leftmost-first, greedy); the first success, or NoMatch.  end is the
\* index after the match, cs..ce-1 the span of capture group 1.  A greedy run of
\* one character class takes the longest count the rest of the pattern accepts.
Match(k, s, i) ==
    IF Len(k) = 0 THEN [start |-> 0, end |-> i, cs |-> 0, ce |-> 0]
    ELSE LET r == Head(k)
             rest == Tail(k)
         IN CASE r.t = "lit" ->
                   IF i + Len(r.s) - 1 <= Len(s) /\ SubSeq(s, i, i + Len(r.s) - 1) = r.s
                   THEN Match(rest, s, i + Len(r.s)) ELSE NoMatch
              [] r.t = "run" ->
                   LET stop == {j \in i..Len(s) : CharAt(s, j) \notin r.c}
                       avail == IF stop = {} THEN Len(s) + 1 - i ELSE Min(stop) - i
                       most == IF r.hi >= 0 /\ avail > r.hi THEN r.hi ELSE avail
                       res == [n \in r.lo..most |-> Match(rest, s, i + n)]
                       ok == {n \in r.lo..most : res[n].end # 0}
                   IN IF ok = {} THEN NoMatch ELSE res[Max(ok)]
              [] r.t = "cat" -> Match(r.a \o rest, s, i)
              [] r.t = "alt" -> MatchAlt(r.a, rest, s, i)
              [] r.t = "opt" ->
                   LET with == Match(<<r.r>> \o rest, s, i)
                   IN IF with.end # 0 THEN with ELSE Match(rest, s, i)
              [] r.t = "cap" -> Match(<<CapStart, r.r, CapEnd>> \o rest, s, i)
              [] r.t = "cs" ->
                   LET x == Match(rest, s, i)
                   IN IF x.end = 0 THEN x ELSE [x EXCEPT !.cs = i]
              [] r.t = "ce" ->
                   LET x == Match(rest, s, i)
                   IN IF x.end = 0 THEN x ELSE [x EXCEPT !.ce = i]
              [] r.t = "wb" ->
                   IF IsWordAt(s, i - 1) # IsWordAt(s, i)
                   THEN Match(rest, s, i) ELSE NoMatch

MatchAlt(alts, rest, s, i) ==
    IF Len(alts) = 0 THEN NoMatch
    ELSE LET x == Match(<<Head(alts)>> \o rest, s, i)
         IN IF x.end # 0 THEN x ELSE MatchAlt(Tail(alts), rest, s, i)

\* A (?i) pattern is matched against the lower-cased text (its literals are
\* written in lower case); spans index the original text.
Haystack(p, s) == IF p.ci THEN ToLowercase(s) ELSE s

\* the match of p that starts at each index of h
MatchesAt(p, h) == [i \in 1..(Len(h) + 1) |-> [Match(<<p.re>>, h, i) EXCEPT !.start = i]]

\* the leftmost match at or after index from, NoMatch if none
Leftmost(m, from) ==
    LET hits == {i \in DOMAIN m : i >= from /\ m[i].end # 0}
    IN IF hits = {} THEN NoMatch ELSE m[Min(hits)]

\* Regex::captures: the first match, as [start, end, cs, ce], end = 0 if none
Captures(p, s) == Leftmost(MatchesAt(p, Haystack(p, s)), 1)

RECURSIVE IterFrom(_, _)
IterFrom(m, from) ==
    LET x == Leftmost(m, from)
    IN IF x.end = 0 THEN <<>>
       ELSE <<x>> \o IterFrom(m, IF x.end > x.start THEN x.end ELSE x.end + 1)

\* Regex::captures_iter: the successive non-overlapping matches
CapturesIter(p, s) == IterFrom(MatchesAt(p, Haystack(p, s)), 1)

\* caps.get(n).as_str(): capture group 1, or the whole match for n = 0
Group1(s, x) == SubSeq(s, x.cs, x.ce - 1)
Group0(s, x) == SubSeq(s, x.start, x.end - 1)

D == Cls(Digit)
S == Cls(Space)
ColonSpace == Cls({":"} \cup Space)
DigitsN(n) == Run(Digit, n, n)
Star(r) == Run(r.c, 0, -1)
Plus(r) == Run(r.c, 1, -1)
Rep(r, lo, hi) == Run(r.c, lo, hi)

-----------------------------------------------------------------------------
(* InvoiceParser::new: the pattern cascades.  [$€£] is kept as [$] and the   *)
(* quantity marker × is left out: the model's text is ASCII.                 *)

Dollar == Cls({"$"})
Money == Cat(<<Plus(Cls(Digit \cup {","})), Lit("."), DigitsN(2)>>)
AbnLabel == Alt(<<Lit("abn"), Cat(<<Lit("a.b.n"), Opt(Lit("."))>>),
                  Lit("australian business number")>>)

abn_patterns == <<
    [ci |-> TRUE, re |-> Cat(<<AbnLabel, Star(ColonSpace),
        Cap(Cat(<<DigitsN(2), Star(S), DigitsN(3), Star(S), DigitsN(3), Star(S), DigitsN(3)>>))>>)],
    [ci |-> TRUE, re |-> Cat(<<AbnLabel, Star(ColonSpace), Cap(DigitsN(11))>>)],
    [ci |-> FALSE, re |-> Cat(<<WordBoundary,
        Cap(Cat(<<DigitsN(2), S, DigitsN(3), S, DigitsN(3), S, DigitsN(3)>>)), WordBoundary>>)],
    [ci |-> FALSE, re |-> Cat(<<WordBoundary, Cap(DigitsN(11)), WordBoundary>>)] >>

invoice_number_patterns == <<
    [ci |-> TRUE, re |-> Cat(<<
        Alt(<<Cat(<<Lit("invoice"), Star(S),
                    Opt(Alt(<<Lit("#"), Cat(<<Lit("no"), Opt(Lit("."))>>), Lit("number")>>))>>),
              Cat(<<Lit("inv"), Opt(Lit("."))>>),
              Cat(<<Lit("tax"), Star(S), Lit("invoice")>>)>>),
        Star(Cls({":", "#"} \cup Space)),
        Cap(Cat(<<Cls(Word), Star(Cls(Word \cup {"-"}))>>))>>)],
    [ci |-> TRUE, re |-> Cat(<<
        Alt(<<Lit("inv"), Lit("invoice")>>), Star(S), Opt(Lit("#")), Star(S), Star(ColonSpace),
        Cap(Cat(<<Cls(Word), Star(Cls(Word \cup {"-"}))>>))>>)],
    [ci |-> TRUE, re |-> Cat(<<
        Alt(<<Lit("reference"), Lit("ref")>>), Star(Cls({":", "#"} \cup Space)),
        Cap(Cat(<<Lit("inv"), Star(Cls(Word \cup {"-"}))>>))>>)] >>

DateSep == Cls({"/", "-"})
DateLabel == Alt(<<Cat(<<Lit("invoice"), Star(S), Lit("date")>>), Lit("date")>>)
IsoDate == Cat(<<DigitsN(4), Lit("-"), DigitsN(2), Lit("-"), DigitsN(2)>>)
MonthName == Alt(<<Lit("january"), Lit("february"), Lit("march"), Lit("april"), Lit("may"),
                   Lit("june"), Lit("july"), Lit("august"), Lit("september"), Lit("october"),
                   Lit("november"), Lit("december"), Lit("jan"), Lit("feb"), Lit("mar"),
                   Lit("apr"), Lit("may"), Lit("jun"), Lit("jul"), Lit("aug"), Lit("sep"),
                   Lit("oct"), Lit("nov"), Lit("dec")>>)

date_patterns == <<
    [ci |-> TRUE, re |-> Cat(<<DateLabel, Star(ColonSpace),
        Cap(Cat(<<Rep(D, 1, 2), DateSep, Rep(D, 1, 2), DateSep, Rep(D, 2, 4)>>))>>)],
    [ci |-> TRUE, re |-> Cat(<<DateLabel, Star(ColonSpace), Cap(IsoDate)>>)],
    [ci |-> TRUE, re |-> Cat(<<Lit("date"), Star(ColonSpace),
        Cap(Cat(<<Rep(D, 1, 2), Plus(S), MonthName, Star(Cls(LowerAlpha)), Plus(S), DigitsN(4)>>))>>)],
    [ci |-> FALSE, re |-> Cat(<<WordBoundary,
        Cap(Cat(<<Rep(D, 1, 2), DateSep, Rep(D, 1, 2), DateSep, DigitsN(4)>>)), WordBoundary>>)],
    [ci |-> FALSE, re |-> Cat(<<WordBoundary, Cap(IsoDate), WordBoundary>>)] >>

AmountTail == Cat(<<Star(ColonSpace), Opt(Dollar), Star(S), Cap(Money)>>)

amount_patterns == <<
    [ci |-> TRUE, re |-> Cat(<<
        Alt(<<Cat(<<Lit("total"), Star(S), Lit("amount")>>),
              Cat(<<Lit("total"), Star(S), Lit("due")>>),
              Cat(<<Lit("amount"), Star(S), Lit("due")>>),
              Cat(<<Lit("total"), Star(S), Lit("(inc"), Opt(Lit(".")), Star(S), Lit("gst)")>>),
              Cat(<<Lit("total"), Star(S), Lit("(gst"), Star(S), Lit("inc"), Opt(Lit(".")), Lit(")")>>),
              Cat(<<Lit("grand"), Star(S), Lit("total")>>)>>),
        AmountTail>>)],
    [ci |-> TRUE, re |-> Cat(<<Lit("total"), AmountTail>>)],
    [ci |-> TRUE, re |-> Cat(<<Alt(<<Lit("gst"), Lit("tax")>>), AmountTail>>)],
    [ci |-> TRUE, re |-> Cat(<<Lit("balance"), Star(S), Lit("due"), AmountTail>>)],
    [ci |-> FALSE, re |-> Cat(<<Dollar, Star(S), Cap(Money)>>)] >>

TermsLabel == Alt(<<Cat(<<Lit("payment"), Star(S), Lit("term"), Opt(Lit("s"))>>),
                    Cat(<<Lit("term"), Opt(Lit("s"))>>)>>)
Days == Alt(<<Cat(<<Lit("day"), Opt(Lit("s"))>>), Lit("day")>>)

payment_terms_patterns == <<
    [ci |-> TRUE, re |-> Cat(<<TermsLabel, Star(ColonSpace),
        Cap(Cat(<<Plus(D), Star(S), Days>>))>>)],
    [ci |-> TRUE, re |-> Cat(<<TermsLabel, Star(ColonSpace),
        Cap(Alt(<<Cat(<<Lit("net"), Star(S), Plus(D)>>), Lit("cod"),
                  Cat(<<Lit("cash"), Star(S), Lit("on"), Star(S), Lit("delivery")>>),
                  Lit("immediate"),
                  Cat(<<Lit("upon"), Star(S), Lit("receipt")>>)>>))>>)],
    [ci |-> TRUE, re |-> Cat(<<Lit("due"), Star(S), Opt(Alt(<<Lit("in"), Lit("within")>>)),
        Star(ColonSpace), Cap(Cat(<<Plus(D), Star(S), Days>>))>>)],
    [ci |-> TRUE, re |-> Cat(<<Lit("net"), Star(S), Cap(Plus(D))>>)],
    [ci |-> TRUE, re |-> Alt(<<Lit("eom"),
        Cat(<<Lit("end"), Star(S), Lit("of"), Star(S), Lit("month")>>)>>)],
    [ci |-> TRUE, re |-> Cat(<<Alt(<<Lit("14"), Lit("30"), Lit("60"), Lit("90")>>),
        Star(S), Lit("day"), Opt(Lit("s"))>>)] >>

\* the two patterns extract_line_items compiles per line
line_amount_pattern == [ci |-> FALSE, re |-> Cap(Money)]
qty_pattern ==
    [ci |-> TRUE, re |-> Cat(<<Cap(Cat(<<Plus(D), Opt(Cat(<<Lit("."), Plus(D)>>))>>)),
                               Star(S), Alt(<<Lit("x"), Lit("@"), Lit("at")>>)>>)]

-----------------------------------------------------------------------------
(* u32 arithmetic of validate_abn, kept as two 16-bit halves *)

B16 == 2^16

U32(n) == [hi |-> n \div B16, lo |-> n % B16, ovf |-> FALSE]

\* a - n for 0 <= n < 2^16: wraps below zero and records that it did
U32Sub(a, n) ==
    LET lo == a.lo - n
        hi == IF lo < 0 THEN a.hi - 1 ELSE a.hi
    IN [hi |-> hi % B16, lo |-> lo % B16, ovf |-> a.ovf \/ hi < 0]

\* a * w for 0 <= w < 2^8
U32Mul(a, w) ==
    LET lo == a.lo * w
        hi == a.hi * w + (lo \div B16)
    IN [hi |-> hi % B16, lo |-> lo % B16, ovf |-> a.ovf \/ hi >= B16]

\* a + n for 0 <= n < 2^16
U32Add(a, n) ==
    LET lo == a.lo + n
        hi == a.hi + (lo \div B16)
    IN [hi |-> hi % B16, lo |-> lo % B16, ovf |-> a.ovf \/ hi >= B16]

\* a % 89
U32Mod89(a) == (a.hi * (B16 % 89) + a.lo) % 89

-----------------------------------------------------------------------------
(* InvoiceParser::validate_abn *)

weights == <<10, 1, 3, 5, 7, 9, 11, 13, 15, 17, 19>>

RECURSIVE ToDigits(_, _)
\* abn.chars().filter_map(|c| c.to_digit(10)).collect()
ToDigits(abn, i) ==
    IF i > Len(abn) THEN <<>>
    ELSE (IF CharAt(abn, i) \in Digit THEN <<DigitValue[CharAt(abn, i)]>> ELSE <<>>)
         \o ToDigits(abn, i + 1)

RECURSIVE AbnSumFrom(_, _, _)
\* the loop "for i in 1..11 { sum += digits[i] * weights[i] }" (0-based i)
AbnSumFrom(digits, sum, i) ==
    IF i > 10 THEN sum
    ELSE AbnSumFrom(digits, U32Add(sum, digits[i + 1] * weights[i + 1]), i + 1)

\* "let mut sum = (digits[0] - 1) * weights[0]" and the loop
AbnSum(digits) == AbnSumFrom(digits, U32Mul(U32Sub(U32(digits[1]), 1), weights[1]), 1)

Returned(v) == [panic |-> FALSE, value |-> v]
Panicked == [panic |-> TRUE, value |-> FALSE]

\* The outcome of validate_abn(abn) in a build with (checks) or without overflow
\* checks: an overflowing u32 operation panics in the first and wraps in the second.
validate_abn(abn, checks) ==
    IF Len(abn) # 11 THEN Returned(FALSE)
    ELSE LET digits == ToDigits(abn, 1)
         IN IF Len(digits) # 11 THEN Returned(FALSE)
            ELSE LET sum == AbnSum(digits)
                 IN IF sum.ovf /\ checks THEN Panicked
                    ELSE Returned(U32Mod89(sum) = 0)


-----------------------------------------------------------------------------
(* ExtractedField, Option *)

\* f64 confidences in units of 1/6000: every mean of up to five hundredths is exact
One == 60 * 100
Conf(hundredths) == 60 * hundredths

None == [some |-> FALSE]
\* Some(ExtractedField::new(value, confidence, source))
Field(value, confidence, source) ==
    [some |-> TRUE, value |-> value, confidence |-> confidence, source |-> source]

-----------------------------------------------------------------------------
(* InvoiceParser::extract_abn *)

RECURSIVE ExtractAbnFrom(_, _, _)
\* the cascade from pattern k on: [panic, field]
ExtractAbnFrom(txt, checks, k) ==
    IF k > Len(abn_patterns) THEN [panic |-> FALSE, field |-> None]
    ELSE LET caps == Captures(abn_patterns[k], txt)
         IN IF caps.end = 0 THEN ExtractAbnFrom(txt, checks, k + 1)
            ELSE LET abn == RemoveChar(Group1(txt, caps), " ")
                     v == validate_abn(abn, checks)
                 IN IF v.panic THEN [panic |-> TRUE, field |-> None]
                    ELSE IF v.value
                    THEN [panic |-> FALSE, field |-> Field(abn, Conf(90), "abn_regex")]
                    ELSE ExtractAbnFrom(txt, checks, k + 1)

RECURSIVE ExtractAbnUncheckedFrom(_, _)
ExtractAbnUncheckedFrom(txt, k) ==
    IF k > Len(abn_patterns) THEN [panic |-> FALSE, field |-> None]
    ELSE LET caps == Captures(abn_patterns[k], txt)
         IN IF caps.end = 0 THEN ExtractAbnUncheckedFrom(txt, k + 1)
            ELSE [panic |-> FALSE,
                  field |-> Field(RemoveChar(Group1(txt, caps), " "), Conf(90), "abn_regex")]

\* extract_abn without its "if self.validate_abn(&abn)": the first capture is taken
extract_abn_unchecked(txt, checks) == ExtractAbnUncheckedFrom(txt, 1)

extract_abn(txt, checks) == ExtractAbnFrom(txt, checks, 1)


-----------------------------------------------------------------------------
(* InvoiceParser::extract_invoice_number *)

RECURSIVE ExtractInvoiceNumberFrom(_, _)
ExtractInvoiceNumberFrom(txt, k) ==
    IF k > Len(invoice_number_patterns) THEN None
    ELSE LET caps == Captures(invoice_number_patterns[k], txt)
             inv_num == ToUppercase(Trim(Group1(txt, caps)))
         IN IF caps.end # 0 /\ Len(inv_num) # 0 /\ Len(inv_num) < 50
            THEN Field(inv_num, Conf(85), "invoice_number_regex")
            ELSE ExtractInvoiceNumberFrom(txt, k + 1)

RECURSIVE ExtractInvoiceNumberRawFrom(_, _)
ExtractInvoiceNumberRawFrom(txt, k) ==
    IF k > Len(invoice_number_patterns) THEN None
    ELSE LET caps == Captures(invoice_number_patterns[k], txt)
             inv_num == Trim(Group1(txt, caps))
         IN IF caps.end # 0 /\ Len(inv_num) # 0 /\ Len(inv_num) < 50
            THEN Field(inv_num, Conf(85), "invoice_number_regex")
            ELSE ExtractInvoiceNumberRawFrom(txt, k + 1)

\* extract_invoice_number without its to_uppercase
extract_invoice_number_raw(txt) == ExtractInvoiceNumberRawFrom(txt, 1)

extract_invoice_number(txt) == ExtractInvoiceNumberFrom(txt, 1)

-----------------------------------------------------------------------------
(* slice::sort_by with a descending comparison on one field: stable *)

RECURSIVE InsertDesc(_, _, _)
\* x put into the descending sequence sorted, after every element not below it
InsertDesc(sorted, x, key) ==
    IF Len(sorted) = 0 THEN <<x>>
    ELSE IF Head(sorted)[key] >= x[key]
    THEN <<Head(sorted)>> \o InsertDesc(Tail(sorted), x, key)
    ELSE <<x>> \o sorted

RECURSIVE SortDescFrom(_, _, _, _)
SortDescFrom(seq, i, acc, key) ==
    IF i > Len(seq) THEN acc
    ELSE SortDescFrom(seq, i + 1, InsertDesc(acc, seq[i], key), key)

SortDesc(seq, key) == SortDescFrom(seq, 1, <<>>, key)

-----------------------------------------------------------------------------
(* InvoiceParser::extract_dates *)

RECURSIVE PushDates(_, _, _, _)
\* the inner loop over one pattern's matches: acc = [dates, seen]
PushDates(txt, matches, j, acc) ==
    IF j > Len(matches) THEN acc
    ELSE LET date == Trim(Group1(txt, matches[j]))
         IN IF date \notin acc.seen /\ Len(date) >= 6
            THEN PushDates(txt, matches, j + 1,
                           [dates |-> Append(acc.dates, Field(date, Conf(80), "date_regex")),
                            seen |-> acc.seen \cup {date}])
            ELSE PushDates(txt, matches, j + 1, acc)

RECURSIVE CollectDates(_, _, _)
CollectDates(txt, k, acc) ==
    IF k > Len(date_patterns) THEN acc
    ELSE CollectDates(txt, k + 1,
                      PushDates(txt, CapturesIter(date_patterns[k], txt), 1, acc))

\* extract_dates as a first-match-wins cascade: the first match of the first rule
\* that matches, and nothing else
extract_dates_first_match(txt) ==
    LET hits == {k \in DOMAIN date_patterns : Captures(date_patterns[k], txt).end # 0}
    IN IF hits = {} THEN <<>>
       ELSE <<Field(Trim(Group1(txt, Captures(date_patterns[Min(hits)], txt))),
                    Conf(80), "date_regex")>>

extract_dates(txt) ==
    SortDesc(CollectDates(txt, 1, [dates |-> <<>>, seen |-> {}]).dates, "confidence")

-----------------------------------------------------------------------------
(* InvoiceParser::extract_amounts *)

\* integer parts are exact up to this many dollars and saturate above it, well
\* past the 1,000,000 limit of extract_amounts
DollarCap == 10 ^ 7

RECURSIVE ParseNat(_, _, _)
\* the decimal value of the digits of str from index i on, acc the value so far
ParseNat(str, i, acc) ==
    IF i > Len(str) THEN acc
    ELSE LET v == acc * 10 + DigitValue[CharAt(str, i)]
         IN ParseNat(str, i + 1, IF v > DollarCap THEN DollarCap ELSE v)

\* str::parse::<f64> of "<digits>.<two digits>" (the digits may be missing), in cents
ParseCents(str) ==
    ParseNat(SubSeq(str, 1, Len(str) - 3), 1, 0) * 100
    + ParseNat(SubSeq(str, Len(str) - 1, Len(str)), 1, 0)

MillionCents == 1000000 * 100

RECURSIVE PushAmounts(_, _, _, _)
\* the inner loop over one pattern's matches: acc = [amounts, seen]
PushAmounts(txt, matches, j, acc) ==
    IF j > Len(matches) THEN acc
    ELSE LET amount_str == RemoveChar(Group1(txt, matches[j]), ",")
             amount == ParseCents(amount_str)
         IN IF amount > 0 /\ amount_str \notin acc.seen /\ amount < MillionCents
            THEN PushAmounts(txt, matches, j + 1,
                             [amounts |-> Append(acc.amounts,
                                                 Field(amount, Conf(75), "amount_regex")),
                              seen |-> acc.seen \cup {amount_str}])
            ELSE PushAmounts(txt, matches, j + 1, acc)

RECURSIVE CollectAmounts(_, _, _)
CollectAmounts(txt, k, acc) ==
    IF k > Len(amount_patterns) THEN acc
    ELSE CollectAmounts(txt, k + 1,
                        PushAmounts(txt, CapturesIter(amount_patterns[k], txt), 1, acc))

\* extract_amounts without its final sort_by: the amounts in the order found
extract_amounts_unsorted(txt) ==
    CollectAmounts(txt, 1, [amounts |-> <<>>, seen |-> {}]).amounts

extract_amounts(txt) ==
    SortDesc(CollectAmounts(txt, 1, [amounts |-> <<>>, seen |-> {}]).amounts, "value")

-----------------------------------------------------------------------------
(* InvoiceParser::extract_payment_terms *)

RECURSIVE ExtractPaymentTermsFrom(_, _)
ExtractPaymentTermsFrom(txt, k) ==
    IF k > Len(payment_terms_patterns) THEN None
    ELSE LET caps == Captures(payment_terms_patterns[k], txt)
         IN IF caps.end # 0
            THEN Field(Trim(Group0(txt, caps)), Conf(75), "payment_terms_regex")
            ELSE ExtractPaymentTermsFrom(txt, k + 1)

extract_payment_terms(txt) == ExtractPaymentTermsFrom(txt, 1)

-----------------------------------------------------------------------------
(* InvoiceParser::extract_vendor_name *)

VendorLineCap == 10

RECURSIVE TrimmedLines(_, _)
TrimmedLines(ls, i) ==
    IF i > Len(ls) THEN <<>> ELSE <<Trim(ls[i])>> \o TrimmedLines(ls, i + 1)

Take(seq, n) == SubSeq(seq, 1, IF Len(seq) < n THEN Len(seq) ELSE n)

\* the filter of the line iterator: !l.is_empty() && l.len() > 2
VendorCandidate(l) == Len(l) # 0 /\ Len(l) > 2

non_vendor_prefixes == <<"abn", "invoice", "date", "tax", "bill to", "ship to">>

business_suffixes == <<"pty ltd", "ltd", "limited", "inc", "corp", "llc", "trading as", "t/a">>

RECURSIVE ExtractVendorFrom(_, _)
ExtractVendorFrom(lines, i) ==
    IF i > Len(lines) THEN None
    ELSE LET line == lines[i]
             lower == ToLowercase(line)
         IN IF (\E k \in DOMAIN non_vendor_prefixes : StartsWith(lower, non_vendor_prefixes[k]))
               \/ AllChars(line, Digit \cup {"-", "/"})
            THEN ExtractVendorFrom(lines, i + 1)
            ELSE IF Len(line) > 3 /\ Len(line) < 100 /\ AnyChar(line, Alpha)
            THEN Field(line,
                       IF \E k \in DOMAIN business_suffixes : Contains(lower, business_suffixes[k])
                       THEN Conf(90) ELSE Conf(70),
                       "vendor_heuristic")
            ELSE ExtractVendorFrom(lines, i + 1)

\* extract_vendor_name without its take(10)
extract_vendor_name_uncapped(txt) ==
    ExtractVendorFrom(SelectSeq(TrimmedLines(Lines(txt), 1), VendorCandidate), 1)

extract_vendor_name(txt) ==
    ExtractVendorFrom(
        Take(SelectSeq(TrimmedLines(Lines(txt), 1), VendorCandidate), VendorLineCap), 1)


-----------------------------------------------------------------------------
(* InvoiceParser::extract_line_items *)

LineItemCap == 50

RECURSIVE Gcd(_, _)
Gcd(a, b) == IF b = 0 THEN a ELSE Gcd(b, a % b)

\* the f64 n/d of extract_line_items, kept as a reduced fraction
Rat(n, d) == LET g == Gcd(n, d) IN [n |-> n \div g, d |-> d \div g]

\* str::parse::<f64> of "<digits>" or "<digits>.<digits>"
ParseDecimal(str) ==
    LET dot == Find(str, ".")
    IN IF dot = 0 THEN Rat(ParseNat(str, 1, 0), 1)
       ELSE Rat(ParseNat(RemoveChar(str, "."), 1, 0), 10 ^ (Len(str) - dot))

RECURSIVE NatToStr(_)
NatToStr(n) == IF n < 10 THEN DigitChar[n + 1] ELSE NatToStr(n \div 10) \o DigitChar[(n % 10) + 1]

\* format!("{:.2}", amount) for an amount in cents
Format2(cents) ==
    NatToStr(cents \div 100) \o "." \o DigitChar[((cents \div 10) % 10) + 1] \o DigitChar[(cents % 10) + 1]

RECURSIVE ReplaceDoubleSpace(_)
\* str::replace("  ", " "): left to right, matches not overlapping
ReplaceDoubleSpace(s) ==
    LET at == Find(s, "  ")
    IN IF at = 0 THEN s
       ELSE SubSeq(s, 1, at - 1) \o " " \o ReplaceDoubleSpace(SubSeq(s, at + 2, Len(s)))

RECURSIVE LineAmounts(_, _, _)
\* the amounts of one line: every match parsed (in cents), those > 0 kept
LineAmounts(line, matches, j) ==
    IF j > Len(matches) THEN <<>>
    ELSE LET a == ParseCents(RemoveChar(Group1(line, matches[j]), ","))
         IN (IF a > 0 THEN <<a>> ELSE <<>>) \o LineAmounts(line, matches, j + 1)

\* the loop body taking the first amount of the line, not the last, as the total
LineItemOfFirstAmount(raw) ==
    LET line == Trim(raw)
        amounts == LineAmounts(line, CapturesIter(line_amount_pattern, line), 1)
        qcaps == Captures(qty_pattern, line)
        quantity == IF qcaps.end = 0 THEN None
                    ELSE [some |-> TRUE, value |-> ParseDecimal(Group1(line, qcaps))]
        total == amounts[1]
        unit_price == IF Len(amounts) >= 2 THEN Rat(amounts[Len(amounts) - 1], 1)
                      ELSE IF quantity.some
                      THEN (IF quantity.value.n > 0
                            THEN Rat(total * quantity.value.d, quantity.value.n)
                            ELSE Rat(0, 1))
                      ELSE Rat(total, 1)
        first_amount_pos == Find(line, Format2(amounts[1]))
        desc0 == IF first_amount_pos # 0 THEN Trim(SubSeq(line, 1, first_amount_pos - 1)) ELSE line
        desc == Trim(ReplaceDoubleSpace(ReplaceChars(desc0, AsciiControl, " ")))
    IN IF Len(line) = 0 \/ Len(line) < 10 THEN <<>>
       ELSE IF Len(amounts) = 0 THEN <<>>
       ELSE IF Len(desc) # 0 /\ Len(desc) < 200
       THEN <<[description |-> desc, quantity |-> quantity,
               unit_price |-> [some |-> TRUE, value |-> unit_price],
               total |-> total,
               confidence |-> IF quantity.some THEN Conf(70) ELSE Conf(50)]>>
       ELSE <<>>

\* the body of the loop for one line: the items it pushes (none or one)
LineItemOf(raw) ==
    LET line == Trim(raw)
        amounts == LineAmounts(line, CapturesIter(line_amount_pattern, line), 1)
        qcaps == Captures(qty_pattern, line)
        quantity == IF qcaps.end = 0 THEN None
                    ELSE [some |-> TRUE, value |-> ParseDecimal(Group1(line, qcaps))]
        total == amounts[Len(amounts)]
        unit_price == IF Len(amounts) >= 2 THEN Rat(amounts[Len(amounts) - 1], 1)
                      ELSE IF quantity.some
                      THEN (IF quantity.value.n > 0
                            THEN Rat(total * quantity.value.d, quantity.value.n)
                            ELSE Rat(0, 1))
                      ELSE Rat(total, 1)
        first_amount_pos == Find(line, Format2(amounts[1]))
        desc0 == IF first_amount_pos # 0 THEN Trim(SubSeq(line, 1, first_amount_pos - 1)) ELSE line
        desc == Trim(ReplaceDoubleSpace(ReplaceChars(desc0, AsciiControl, " ")))
    IN IF Len(line) = 0 \/ Len(line) < 10 THEN <<>>
       ELSE IF Len(amounts) = 0 THEN <<>>
       ELSE IF Len(desc) # 0 /\ Len(desc) < 200
       THEN <<[description |-> desc, quantity |-> quantity,
               unit_price |-> [some |-> TRUE, value |-> unit_price],
               total |-> total,
               confidence |-> IF quantity.some THEN Conf(70) ELSE Conf(50)]>>
       ELSE <<>>

RECURSIVE LineItemsFrom(_, _)
LineItemsFrom(ls, i) ==
    IF i > Len(ls) THEN <<>> ELSE LineItemOf(ls[i]) \o LineItemsFrom(ls, i + 1)

\* extract_line_items without its truncate(50)
extract_line_items_untruncated(txt) == LineItemsFrom(Lines(txt), 1)

extract_line_items(txt) == Take(LineItemsFrom(Lines(txt), 1), LineItemCap)

-----------------------------------------------------------------------------
(* InvoiceParser::calculate_confidence *)

DefaultInvoice ==
    [abn |-> None, invoice_number |-> None, invoice_date |-> None, due_date |-> None,
     vendor_name |-> None, total_amount |-> None, gst_amount |-> None,
     payment_terms |-> None, line_items |-> <<>>, raw_text |-> "",
     overall_confidence |-> 0, document_type |-> "Unknown"]

\* one "if let Some(ref f) = ... { total_confidence += f.confidence; field_count += 1 }"
Counted(acc, f) ==
    IF f.some THEN [total_confidence |-> acc.total_confidence + f.confidence,
                    field_count |-> acc.field_count + 1]
    ELSE acc

\* calculate_confidence counting an absent field as a confidence of zero
calculate_confidence_of_five(invoice) ==
    LET acc == Counted(Counted(Counted(Counted(Counted(
                   [total_confidence |-> 0, field_count |-> 0],
                   invoice.abn), invoice.invoice_number), invoice.invoice_date),
                   invoice.total_amount), invoice.vendor_name)
        avg_confidence == acc.total_confidence \div 5
        boost == IF invoice.abn.some /\ invoice.invoice_number.some /\ invoice.total_amount.some
                 THEN Conf(10) ELSE 0
    IN IF acc.field_count = 0 THEN 0
       ELSE IF avg_confidence + boost < One THEN avg_confidence + boost ELSE One

\* calculate_confidence without the division and without the min(1.0)
calculate_confidence_sum(invoice) ==
    LET acc == Counted(Counted(Counted(Counted(Counted(
                   [total_confidence |-> 0, field_count |-> 0],
                   invoice.abn), invoice.invoice_number), invoice.invoice_date),
                   invoice.total_amount), invoice.vendor_name)
        boost == IF invoice.abn.some /\ invoice.invoice_number.some /\ invoice.total_amount.some
                 THEN Conf(10) ELSE 0
    IN IF acc.field_count = 0 THEN 0 ELSE acc.total_confidence + boost

calculate_confidence(invoice) ==
    LET acc == Counted(Counted(Counted(Counted(Counted(
                   [total_confidence |-> 0, field_count |-> 0],
                   invoice.abn), invoice.invoice_number), invoice.invoice_date),
                   invoice.total_amount), invoice.vendor_name)
        avg_confidence == acc.total_confidence \div acc.field_count
        boost == IF invoice.abn.some /\ invoice.invoice_number.some /\ invoice.total_amount.some
                 THEN Conf(10) ELSE 0
    IN IF acc.field_count = 0 THEN 0
       ELSE IF avg_confidence + boost < One THEN avg_confidence + boost ELSE One

-----------------------------------------------------------------------------
(* f64 arithmetic of the gst test "amount.value < amounts[0].value * 0.2":   *)
(* a positive f64 is [m, s] for m * 2^-s with 2^52 <= m < 2^53, m a natural  *)
(* number in limbs of 15 bits, least significant first, no leading zero limb *)

B15 == 2^15

RECURSIVE Norm(_)
\* without the zero limbs at the most significant end
Norm(x) == IF Len(x) > 0 /\ x[Len(x)] = 0 THEN Norm(SubSeq(x, 1, Len(x) - 1)) ELSE x

\* n < 2^31 in limbs
BigOf(n) == Norm(<<n % B15, (n \div B15) % B15, n \div (B15 * B15)>>)

RECURSIVE MulSmall(_, _, _)
\* x * k + carry, for k <= 2^15
MulSmall(x, k, carry) ==
    IF Len(x) = 0 THEN BigOf(carry)
    ELSE LET v == x[1] * k + carry
         IN <<v % B15>> \o MulSmall(Tail(x), k, v \div B15)

RECURSIVE AddBig(_, _, _)
AddBig(x, y, carry) ==
    IF Len(x) = 0 /\ Len(y) = 0 THEN BigOf(carry)
    ELSE LET v == (IF Len(x) = 0 THEN 0 ELSE x[1]) + (IF Len(y) = 0 THEN 0 ELSE y[1]) + carry
         IN <<v % B15>> \o AddBig(IF Len(x) = 0 THEN x ELSE Tail(x),
                                  IF Len(y) = 0 THEN y ELSE Tail(y), v \div B15)

RECURSIVE MulBig(_, _)
MulBig(x, y) ==
    IF Len(y) = 0 THEN <<>>
    ELSE Norm(AddBig(MulSmall(x, y[1], 0), <<0>> \o MulBig(x, Tail(y)), 0))

RECURSIVE DivSmallFrom(_, _, _, _)
\* long division by d <= 2^15 from limb i down: [q, r]
DivSmallFrom(x, d, i, rem) ==
    IF i = 0 THEN [q |-> <<>>, r |-> rem]
    ELSE LET v == rem * B15 + x[i]
             rest == DivSmallFrom(x, d, i - 1, v % d)
         IN [q |-> Append(rest.q, v \div d), r |-> rest.r]

DivSmall(x, d) ==
    LET res == DivSmallFrom(x, d, Len(x), 0) IN [q |-> Norm(res.q), r |-> res.r]

RECURSIVE CmpFrom(_, _, _)
CmpFrom(x, y, i) ==
    IF i = 0 THEN 0
    ELSE IF x[i] < y[i] THEN -1
    ELSE IF x[i] > y[i] THEN 1
    ELSE CmpFrom(x, y, i - 1)

\* -1, 0 or 1 as x <, =, > y
CmpBig(x, y) ==
    IF Len(x) < Len(y) THEN -1
    ELSE IF Len(x) > Len(y) THEN 1
    ELSE CmpFrom(x, y, Len(x))

RECURSIVE SmallBits(_)
SmallBits(n) == IF n = 0 THEN 0 ELSE 1 + SmallBits(n \div 2)

\* the number of binary digits of x
BitLength(x) == IF Len(x) = 0 THEN 0 ELSE 15 * (Len(x) - 1) + SmallBits(x[Len(x)])

\* x * 2^k
ShiftLeft(x, k) ==
    IF Len(x) = 0 THEN x
    ELSE [i \in 1..(k \div 15) |-> 0] \o MulSmall(x, 2^(k % 15), 0)

\* floor(x / 2^k)
ShiftRight(x, k) ==
    IF k \div 15 >= Len(x) THEN <<>>
    ELSE DivSmall(SubSeq(x, k \div 15 + 1, Len(x)), 2^(k % 15)).q

\* x mod 2^k
LowBits(x, k) ==
    IF k \div 15 >= Len(x) THEN x
    ELSE Norm(SubSeq(x, 1, k \div 15) \o <<x[k \div 15 + 1] % 2^(k % 15)>>)

Odd(x) == Len(x) > 0 /\ x[1] % 2 = 1

Two52 == ShiftLeft(<<1>>, 52)
Two53 == ShiftLeft(<<1>>, 53)

\* round to nearest, ties to even: q is the truncated mantissa, up says whether the
\* discarded part is above a half (1), a half (0) or below (-1); s is the scale
RoundEven(q, up, s) ==
    LET m == IF up = 1 \/ (up = 0 /\ Odd(q)) THEN AddBig(q, <<1>>, 0) ELSE q
    IN IF CmpBig(m, Two53) = 0 THEN [m |-> Two52, s |-> s - 1] ELSE [m |-> m, s |-> s]

\* the f64 nearest to n / 100, for 0 < n < 2^27: what str::parse::<f64> gives for
\* a decimal with two places
ParseF64(cents) ==
    LET s0 == 60 - SmallBits(cents)
        s == IF BitLength(DivSmall(ShiftLeft(BigOf(cents), s0), 100).q) > 53
             THEN s0 - 1 ELSE s0
        d == DivSmall(ShiftLeft(BigOf(cents), s), 100)
    IN RoundEven(d.q, IF 2 * d.r > 100 THEN 1 ELSE IF 2 * d.r = 100 THEN 0 ELSE -1, s)

\* the f64 literal 0.2 = 0x1.999999999999Ap-3
F64Fifth == [m |-> AddBig(DivSmall(ShiftLeft(<<1>>, 55), 5).q, <<1>>, 0),
             s |-> 55]

\* the f64 product x * y
F64Mul(x, y) ==
    LET prod == MulBig(x.m, y.m)
        k == BitLength(prod) - 53
        low == LowBits(prod, k)
        half == ShiftLeft(<<1>>, k - 1)
    IN RoundEven(ShiftRight(prod, k), CmpBig(low, half), x.s + y.s - k)

\* x < y
F64Less(x, y) ==
    IF x.s # y.s THEN x.s > y.s ELSE CmpBig(x.m, y.m) < 0

-----------------------------------------------------------------------------
(* InvoiceParser::parse_from_text *)

RECURSIVE GstFrom(_, _, _)
\* the loop over amounts[1..]: the first amount below 20% of amounts[0], if the
\* text mentions gst
GstFrom(txt, amounts, j) ==
    IF j > Len(amounts) THEN None
    ELSE IF Contains(ToLowercase(txt), "gst")
            /\ F64Less(ParseF64(amounts[j].value), F64Mul(ParseF64(amounts[1].value), F64Fifth))
    THEN amounts[j]
    ELSE GstFrom(txt, amounts, j + 1)

\* parse_from_text without its last step, "invoice.overall_confidence =
\* self.calculate_confidence(&invoice)"
parse_from_text_unscored(input, document_type, checks) ==
    LET txt == Trim(input)
        abn == extract_abn(txt, checks)
        dates == extract_dates(txt)
        amounts == extract_amounts(txt)
        invoice ==
            [abn |-> abn.field,
             invoice_number |-> extract_invoice_number(txt),
             invoice_date |-> IF Len(dates) # 0 THEN dates[1] ELSE None,
             due_date |-> IF Len(dates) > 1 THEN dates[2] ELSE None,
             vendor_name |-> extract_vendor_name(txt),
             total_amount |-> IF Len(amounts) # 0 THEN amounts[1] ELSE None,
             gst_amount |-> IF Len(amounts) # 0 THEN GstFrom(txt, amounts, 2) ELSE None,
             payment_terms |-> extract_payment_terms(txt),
             line_items |-> extract_line_items(txt),
             raw_text |-> txt,
             overall_confidence |-> 0,
             document_type |-> document_type]
    IN IF Len(txt) = 0 THEN [tag |-> "Err", invoice |-> DefaultInvoice, dates |-> <<>>, amounts |-> <<>>]
       ELSE IF abn.panic
       THEN [tag |-> "Panic", invoice |-> DefaultInvoice, dates |-> <<>>, amounts |-> <<>>]
       ELSE [tag |-> "Ok",
             invoice |-> invoice,
             dates |-> dates, amounts |-> amounts]

\* [tag, invoice, dates, amounts]: tag is "Ok", "Err" (Err("Empty text content")) or
\* "Panic"; dates and amounts are the handler's two local lists
parse_from_text(input, document_type, checks) ==
    LET txt == Trim(input)
        abn == extract_abn(txt, checks)
        dates == extract_dates(txt)
        amounts == extract_amounts(txt)
        invoice ==
            [abn |-> abn.field,
             invoice_number |-> extract_invoice_number(txt),
             invoice_date |-> IF Len(dates) # 0 THEN dates[1] ELSE None,
             due_date |-> IF Len(dates) > 1 THEN dates[2] ELSE None,
             vendor_name |-> extract_vendor_name(txt),
             total_amount |-> IF Len(amounts) # 0 THEN amounts[1] ELSE None,
             gst_amount |-> IF Len(amounts) # 0 THEN GstFrom(txt, amounts, 2) ELSE None,
             payment_terms |-> extract_payment_terms(txt),
             line_items |-> extract_line_items(txt),
             raw_text |-> txt,
             overall_confidence |-> 0,
             document_type |-> document_type]
    IN IF Len(txt) = 0 THEN [tag |-> "Err", invoice |-> DefaultInvoice, dates |-> <<>>, amounts |-> <<>>]
       ELSE IF abn.panic
       THEN [tag |-> "Panic", invoice |-> DefaultInvoice, dates |-> <<>>, amounts |-> <<>>]
       ELSE [tag |-> "Ok",
             invoice |-> [invoice EXCEPT !.overall_confidence = calculate_confidence(invoice)],
             dates |-> dates, amounts |-> amounts]

-----------------------------------------------------------------------------
(* validate_invoice *)

Half == Conf(50)
ThreeQuarters == Conf(75)

\* push onto a Vec<String> when the condition holds
PushIf(cond, vec, str) == IF cond THEN Append(vec, str) ELSE vec

InSeq(x, seq) == \E i \in DOMAIN seq : seq[i] = x

\* validate_invoice with is_valid not looking at the overall confidence
validate_invoice_any_confidence(invoice, checks) ==
    LET missing_fields ==
            PushIf(~invoice.total_amount.some,
              PushIf(~invoice.invoice_date.some,
                PushIf(~invoice.invoice_number.some,
                  PushIf(~invoice.abn.some, <<>>, "abn"),
                  "invoice_number"),
                "invoice_date"),
              "total_amount")
        presence_warnings ==
            PushIf(Len(invoice.line_items) = 0,
              PushIf(~invoice.payment_terms.some,
                PushIf(~invoice.vendor_name.some, <<>>, "Vendor name not detected"),
                "Payment terms not detected"),
              "No line items extracted")
        checksum == IF invoice.abn.some THEN validate_abn(invoice.abn.value, checks)
                    ELSE Returned(TRUE)
        warnings == PushIf(invoice.abn.some /\ ~checksum.value, presence_warnings,
                           "ABN " \o invoice.abn.value \o " failed checksum validation")
        is_valid == ~InSeq("total_amount", missing_fields)
        suggested_action ==
            IF Len(missing_fields) = 0 /\ invoice.overall_confidence >= ThreeQuarters
            THEN "accept"
            ELSE IF invoice.overall_confidence >= Half THEN "review"
            ELSE "manual_entry"
    IN IF checksum.panic
       THEN [panic |-> TRUE, is_valid |-> FALSE, missing_fields |-> <<>>,
             warnings |-> <<>>, suggested_action |-> ""]
       ELSE [panic |-> FALSE, is_valid |-> is_valid, missing_fields |-> missing_fields,
             warnings |-> warnings, suggested_action |-> suggested_action]

\* [panic, is_valid, missing_fields, warnings, suggested_action]
validate_invoice(invoice, checks) ==
    LET missing_fields ==
            PushIf(~invoice.total_amount.some,
              PushIf(~invoice.invoice_date.some,
                PushIf(~invoice.invoice_number.some,
                  PushIf(~invoice.abn.some, <<>>, "abn"),
                  "invoice_number"),
                "invoice_date"),
              "total_amount")
        presence_warnings ==
            PushIf(Len(invoice.line_items) = 0,
              PushIf(~invoice.payment_terms.some,
                PushIf(~invoice.vendor_name.some, <<>>, "Vendor name not detected"),
                "Payment terms not detected"),
              "No line items extracted")
        checksum == IF invoice.abn.some THEN validate_abn(invoice.abn.value, checks)
                    ELSE Returned(TRUE)
        warnings == PushIf(invoice.abn.some /\ ~checksum.value, presence_warnings,
                           "ABN " \o invoice.abn.value \o " failed checksum validation")
        is_valid == ~InSeq("total_amount", missing_fields) /\ invoice.overall_confidence >= Half
        suggested_action ==
            IF Len(missing_fields) = 0 /\ invoice.overall_confidence >= ThreeQuarters
            THEN "accept"
            ELSE IF invoice.overall_confidence >= Half THEN "review"
            ELSE "manual_entry"
    IN IF checksum.panic
       THEN [panic |-> TRUE, is_valid |-> FALSE, missing_fields |-> <<>>,
             warnings |-> <<>>, suggested_action |-> ""]
       ELSE [panic |-> FALSE, is_valid |-> is_valid, missing_fields |-> missing_fields,
             warnings |-> warnings, suggested_action |-> suggested_action]


-----------------------------------------------------------------------------
(* The inputs *)

\* lines a text is assembled from
Fragments == {
    " ",
    "ABN: 51 824 753 556",
    "abn 01300000000",
    "A.B.N. 12 345 678 901 or 51824753556",
    "Invoice #INV-2024-001",
    "Date: 15/01/2024 due 2024-02-14",
    "Acme Pty Ltd",
    "GST: $10.00",
    "Total: $110.00",
    "Balance due $1,000,000.00 $0.00",
    "Widget 2 x $5.00 $010.00 $10.00" }

\* the texts of the tests of invoice.rs
TestTexts == {
    "ABN: 51 824 753 556\nInvoice #12345",
    "Australian Business Number: 51824753556",
    "Invoice #INV-2024-001\nDate: 15/01/2024",
    "Subtotal: $100.00\nGST: $10.00\nTotal: $110.00",
    "Payment Terms: Net 30 days" }

\* whole documents: every field present, and one with nothing to find
Documents == {
    "Acme Pty Ltd\nABN: 51 824 753 556\nTax Invoice #INV-2024-001\nDate: 15/01/2024\nWidget 2 x $5.00 $10.00\nGST: $1.00\nTotal: $11.00\nTerms: 30 days",
    "Acme Pty Ltd\nABN 01 300 000 000\nInvoice no. 77\n2024-02-14\nService @ $1,250.50\nAmount due: $1,250.50",
    "Invoice #A123456789B123456789C123456789D123456789E123456789\nRef: INV-77",
    "ABN: 12 345 678 901\nABN: 51 824 753 556",
    "GST $0.22\nTotal $1.10",
    "GST $0.20\nTotal $1.00",
    "no fields here" }

\* documents for the vendor heuristic: a line of 3 characters, lines of 1 or 2
\* characters before the vendor, 10 lines of digits before the vendor, and lines
\* of 99 and of 100 characters
VendorDocuments == {
    "Abc\nAcme Pty Ltd",
    "1\n2\n3\n4\n5\n6\n7\n8\n9\n10\nAcme Pty Ltd",
    "12345\n12345\n12345\n12345\n12345\n12345\n12345\n12345\n12345\n12345\nAcme Pty Ltd",
    "Acme xxxxxxxxxxxxxxxxxxxxxxxxxxxxxxxxxxxxxxxxxxxxxxxxxxxxxxxxxxxxxxxxxxxxxxxxxxxxxxxxxxxxxxxxxxxxxx",
    "Acme xxxxxxxxxxxxxxxxxxxxxxxxxxxxxxxxxxxxxxxxxxxxxxxxxxxxxxxxxxxxxxxxxxxxxxxxxxxxxxxxxxxxxxxxxxxxxxx\nAcme Trading" }

\* documents for the line items: a zero quantity, a quantity with one amount, a
\* zero amount after the last positive one, one amount alone, a short line, a
\* line with nothing before its amount; descriptions of 199 and 200 characters;
\* 51 lines with an item each
LineDocuments == {
    "Widget 0 x $5.00\nService 4 @ $10.00\nWidget $5.00 $0.00 extra\nFreight charge $12.00\nX $1.00\n$25.00 in advance\nHours 2.5 at $100.00\n12.50 paid in full",
    "Deeeeeeeeeeeeeeeeeeeeeeeeeeeeeeeeeeeeeeeeeeeeeeeeeeeeeeeeeeeeeeeeeeeeeeeeeeeeeeeeeeeeeeeeeeeeeeeeeeeeeeeeeeeeeeeeeeeeeeeeeeeeeeeeeeeeeeeeeeeeeeeeeeeeeeeeeeeeeeeeeeeeeeeeeeeeeeeeeeeeeeeeeeeeeeeeeees $3.00\nDeeeeeeeeeeeeeeeeeeeeeeeeeeeeeeeeeeeeeeeeeeeeeeeeeeeeeeeeeeeeeeeeeeeeeeeeeeeeeeeeeeeeeeeeeeeeeeeeeeeeeeeeeeeeeeeeeeeeeeeeeeeeeeeeeeeeeeeeeeeeeeeeeeeeeeeeeeeeeeeeeeeeeeeeeeeeeeeeeeeeeeeeeeeeeeeeeeees $4.00",
    "Item01 $1.01\nItem02 $1.02\nItem03 $1.03\nItem04 $1.04\nItem05 $1.05\nItem06 $1.06\nItem07 $1.07\nItem08 $1.08\nItem09 $1.09\nItem10 $1.10\nItem11 $1.11\nItem12 $1.12\nItem13 $1.13\nItem14 $1.14\nItem15 $1.15\nItem16 $1.16\nItem17 $1.17\nItem18 $1.18\nItem19 $1.19\nItem20 $1.20\nItem21 $1.21\nItem22 $1.22\nItem23 $1.23\nItem24 $1.24\nItem25 $1.25\nItem26 $1.26\nItem27 $1.27\nItem28 $1.28\nItem29 $1.29\nItem30 $1.30\nItem31 $1.31\nItem32 $1.32\nItem33 $1.33\nItem34 $1.34\nItem35 $1.35\nItem36 $1.36\nItem37 $1.37\nItem38 $1.38\nItem39 $1.39\nItem40 $1.40\nItem41 $1.41\nItem42 $1.42\nItem43 $1.43\nItem44 $1.44\nItem45 $1.45\nItem46 $1.46\nItem47 $1.47\nItem48 $1.48\nItem49 $1.49\nItem50 $1.50\nItem51 $1.51" }

MaxFrags == 2

RECURSIVE JoinLines(_)
JoinLines(ls) ==
    IF Len(ls) = 0 THEN ""
    ELSE IF Len(ls) = 1 THEN ls[1]
    ELSE ls[1] \o "\n" \o JoinLines(Tail(ls))

Texts ==
    TestTexts \cup Documents \cup VendorDocuments \cup LineDocuments \cup {JoinLines(ls) : ls \in UNION {[1..n -> Fragments] : n \in 0..MaxFrags}}

-----------------------------------------------------------------------------
(* Extraction: parse_invoice_pdf's call of parse_from_text on the text of a    *)
(* document, then validate_invoice on the record it returned                   *)

NotParsed == [tag |-> "None", invoice |-> DefaultInvoice, dates |-> <<>>, amounts |-> <<>>]
NoVerdict == [panic |-> FALSE, is_valid |-> FALSE, missing_fields |-> <<>>,
              warnings |-> <<>>, suggested_action |-> ""]

Init ==
    /\ overflow_checks \in BOOLEAN
    /\ text \in Texts
    /\ pc = "start"
    /\ parsed = NotParsed
    /\ record = DefaultInvoice
    /\ verdict = NoVerdict
    /\ abn_arg = ""
    /\ abn_ret = Returned(FALSE)

ParseFromText ==
    /\ pc = "start"
    /\ parsed' = parse_from_text(text, "Pdf", overflow_checks)
    /\ pc' = "parsed"
    /\ UNCHANGED <<overflow_checks, text, record, verdict, abn_arg, abn_ret>>

ValidateInvoice ==
    /\ pc = "parsed"
    /\ parsed.tag = "Ok"
    /\ record' = parsed.invoice
    /\ verdict' = validate_invoice(parsed.invoice, overflow_checks)
    /\ pc' = "validated"
    /\ UNCHANGED <<overflow_checks, text, parsed, abn_arg, abn_ret>>

Next == ParseFromText \/ ValidateInvoice

Spec == Init /\ [][Next]_vars


-----------------------------------------------------------------------------
(* Direct calls of validate_abn *)

HeadLen == 3

RECURSIVE DigitStrings(_)
\* the strings of exactly n decimal digits
DigitStrings(n) ==
    IF n = 0 THEN {""} ELSE {h \o d : h \in DigitStrings(n - 1), d \in Digit}

\* what follows the leading digits of an input
AbnTails == {
    "24753556", "4753556", "00000000", "0000000", "99999999", "45678901",
    "2475355a", "2475 3556", " 824 753 556", "abcdefghijk", "" }

AbnInputs == {h \o t : h \in UNION {DigitStrings(n) : n \in 0..HeadLen}, t \in AbnTails}

InitAbn ==
    /\ overflow_checks \in BOOLEAN
    /\ abn_arg \in AbnInputs
    /\ abn_ret = Returned(FALSE)
    /\ pc = "start"
    /\ text = ""
    /\ parsed = NotParsed
    /\ record = DefaultInvoice
    /\ verdict = NoVerdict

ValidateAbnCall ==
    /\ pc = "start"
    /\ abn_ret' = validate_abn(abn_arg, overflow_checks)
    /\ pc' = "returned"
    /\ UNCHANGED <<overflow_checks, abn_arg, text, parsed, record, verdict>>

NextAbn == ValidateAbnCall

SpecAbn == InitAbn /\ [][NextAbn]_vars

-----------------------------------------------------------------------------
(* calculate_confidence on records of any shape *)

ConfSteps == 4

\* the confidences 0, 1/ConfSteps, ..., 1 in hundredths
ConfGrid == {(100 * k) \div ConfSteps : k \in 0..ConfSteps}

Absent == -1

\* a field that is absent, or present with the given hundredths of confidence
FieldAt(value, h) == IF h = Absent THEN None ELSE Field(value, Conf(h), "input")

SampleItem ==
    [description |-> "Widget", quantity |-> None,
     unit_price |-> [some |-> TRUE, value |-> Rat(500, 1)], total |-> 500,
     confidence |-> Conf(50)]

InitConfidence ==
    /\ overflow_checks \in BOOLEAN
    /\ \E a, n, d, t, v \in ConfGrid \cup {Absent}, extras \in BOOLEAN :
          record = [DefaultInvoice EXCEPT
                       !.abn = FieldAt("51824753556", a),
                       !.invoice_number = FieldAt("INV-1", n),
                       !.invoice_date = FieldAt("15/01/2024", d),
                       !.total_amount = FieldAt(11000, t),
                       !.vendor_name = FieldAt("Acme Pty Ltd", v),
                       !.due_date = IF extras THEN Field("2024-02-14", Conf(80), "input") ELSE None,
                       !.gst_amount = IF extras THEN Field(1000, Conf(75), "input") ELSE None,
                       !.payment_terms = IF extras THEN Field("30 days", Conf(75), "input") ELSE None,
                       !.line_items = IF extras THEN <<SampleItem>> ELSE <<>>]
    /\ pc = "start"
    /\ text = ""
    /\ parsed = NotParsed
    /\ verdict = NoVerdict
    /\ abn_arg = ""
    /\ abn_ret = Returned(FALSE)

\* "invoice.overall_confidence = self.calculate_confidence(&invoice)"
CalculateConfidence ==
    /\ pc = "start"
    /\ record' = [record EXCEPT !.overall_confidence = calculate_confidence(record)]
    /\ pc' = "scored"
    /\ UNCHANGED <<overflow_checks, text, parsed, verdict, abn_arg, abn_ret>>

NextConfidence == CalculateConfidence

SpecConfidence == InitConfidence /\ [][NextConfidence]_vars

-----------------------------------------------------------------------------
(* validate_invoice_command: validate_invoice on a record of any shape *)

\* overall confidences at, around and away from the two thresholds
ConfidenceSamples ==
    {0, Conf(40), Half - 1, Half, Half + 1, ThreeQuarters - 1, ThreeQuarters,
     ThreeQuarters + 1, Conf(80), One}

AbnSamples == {"51824753556", "12345678901", "01300000000"}

InitValidate ==
    /\ overflow_checks \in BOOLEAN
    /\ \E abn \in {None} \cup {Field(a, Conf(90), "input") : a \in AbnSamples},
          n, d, t, v, p, i \in BOOLEAN, c \in ConfidenceSamples :
          record = [DefaultInvoice EXCEPT
                       !.abn = abn,
                       !.invoice_number = IF n THEN Field("INV-1", Conf(85), "input") ELSE None,
                       !.invoice_date = IF d THEN Field("15/01/2024", Conf(80), "input") ELSE None,
                       !.total_amount = IF t THEN Field(11000, Conf(75), "input") ELSE None,
                       !.vendor_name = IF v THEN Field("Acme Pty Ltd", Conf(90), "input") ELSE None,
                       !.payment_terms = IF p THEN Field("30 days", Conf(75), "input") ELSE None,
                       !.line_items = IF i THEN <<SampleItem>> ELSE <<>>,
                       !.overall_confidence = c]
    /\ pc = "start"
    /\ text = ""
    /\ parsed = NotParsed
    /\ verdict = NoVerdict
    /\ abn_arg = ""
    /\ abn_ret = Returned(FALSE)

ValidateInvoiceCommand ==
    /\ pc = "start"
    /\ verdict' = validate_invoice(record, overflow_checks)
    /\ pc' = "validated"
    /\ UNCHANGED <<overflow_checks, text, parsed, record, abn_arg, abn_ret>>

NextValidate == ValidateInvoiceCommand

SpecValidate == InitValidate /\ [][NextValidate]_vars


-----------------------------------------------------------------------------
(* Properties of validate_abn, checked under SpecAbn *)

ElevenDigits(str) == Len(str) = 11 /\ AllChars(str, Digit)

\* the weighted sum of the digits as an integer, the first digit reduced by one
WeightedSum(str) ==
    LET d == [i \in 1..11 |-> DigitValue[CharAt(str, i)]]
    IN (d[1] - 1) * 10 + d[2] * 1 + d[3] * 3 + d[4] * 5 + d[5] * 7 + d[6] * 9
       + d[7] * 11 + d[8] * 13 + d[9] * 15 + d[10] * 17 + d[11] * 19

\* C1: for a string of exactly 11 digits, validate_abn returns true if and only if
\* the weighted sum (first digit reduced by one) is 0 mod 89; "51824753556" is
\* valid and "12345678901" is not.
C1_ChecksumFormula ==
    (pc = "returned" /\ ElevenDigits(abn_arg)) =>
        /\ (~abn_ret.panic /\ abn_ret.value) <=> (WeightedSum(abn_arg) % 89 = 0)
        /\ abn_arg = "51824753556" => abn_ret = Returned(TRUE)
        /\ abn_arg = "12345678901" => abn_ret = Returned(FALSE)

\* C2: validate_abn returns a boolean and never aborts: false for an input that
\* is not exactly 11 digits, and for 11 digits, whatever the first, a boolean
\* computed without leaving the range of u32.
C2_NeverAborts ==
    pc = "returned" =>
        /\ ~abn_ret.panic
        /\ ~ElevenDigits(abn_arg) => abn_ret = Returned(FALSE)
        /\ ElevenDigits(abn_arg) => ~AbnSum(ToDigits(abn_arg, 1)).ovf

\* C11: validate_abn judges its input after removing whitespace: 11 digits with
\* whitespace between them (e.g. "51 824 753 556") give the same result as the
\* unspaced string.
C11_WhitespaceRemoved ==
    LET unspaced == ReplaceChars(abn_arg, Space, "")
    IN (pc = "returned" /\ ElevenDigits(unspaced)) =>
          abn_ret = validate_abn(unspaced, overflow_checks)

-----------------------------------------------------------------------------
(* Properties of parse_from_text, checked under Spec *)

\* C3: parse_from_text fails with the empty-input error if and only if the text
\* is empty after trimming; for every other text it returns a record and never
\* aborts, also when an 11-digit candidate starts with 0.
C3_ErrIffEmpty ==
    pc # "start" =>
        /\ parsed.tag = "Err" <=> AllChars(text, Space)
        /\ ~AllChars(text, Space) => parsed.tag = "Ok"

\* C4: in a record returned by parse_from_text, an abn that is present is an
\* 11-digit string for which validate_abn returns true, and validate_invoice on
\* that record emits no "failed checksum validation" warning.
C4_AbnPassesChecksum ==
    /\ (parsed.tag = "Ok" /\ parsed.invoice.abn.some) =>
          /\ ElevenDigits(parsed.invoice.abn.value)
          /\ validate_abn(parsed.invoice.abn.value, overflow_checks) = Returned(TRUE)
    /\ pc = "validated" =>
          /\ ~verdict.panic
          /\ \A i \in DOMAIN verdict.warnings : ~StartsWith(verdict.warnings[i], "ABN ")

\* an abn was extracted and validated although an earlier candidate failed the checksum
C4_Witness ==
    /\ pc = "validated"
    /\ record.abn.some
    /\ Contains(text, "12 345 678 901")

\* the rules of a cascade that match the text somewhere
Matching(patterns, txt) == {k \in DOMAIN patterns : Captures(patterns[k], txt).end # 0}

\* group 1 of the first match of rule k
FirstCapture(patterns, txt, k) == Group1(txt, Captures(patterns[k], txt))

\* C12: the invoice number comes from the first rule, in the fixed order, whose
\* first match has a capture that, trimmed and upper-cased, is non-empty and
\* shorter than 50 characters, with confidence 0.85; a rule whose capture is
\* rejected is passed over; without such a rule the field is absent.  For
\* "Invoice #INV-2024-001" the value is "INV-2024-001".
C12_InvoiceNumberCascade ==
    (pc = "parsed" /\ parsed.tag = "Ok") =>
        LET txt == parsed.invoice.raw_text
            value == [k \in Matching(invoice_number_patterns, txt) |->
                         ToUppercase(Trim(FirstCapture(invoice_number_patterns, txt, k)))]
            accepted == {k \in DOMAIN value : Len(value[k]) > 0 /\ Len(value[k]) < 50}
            field == parsed.invoice.invoice_number
        IN /\ field.some <=> accepted # {}
           /\ field.some =>
                 /\ field.value = value[Min(accepted)]
                 /\ field.confidence = Conf(85)
           /\ text = "Invoice #INV-2024-001" => (field.some /\ field.value = "INV-2024-001")

\* the first rule's capture has 50 characters or more and a later rule gives the value
C12_Witness ==
    /\ pc = "parsed"
    /\ parsed.tag = "Ok"
    /\ parsed.invoice.invoice_number.some
    /\ 1 \in Matching(invoice_number_patterns, text)
    /\ Len(FirstCapture(invoice_number_patterns, text, 1)) >= 50
    /\ parsed.invoice.invoice_number.value # ToUppercase(FirstCapture(invoice_number_patterns, text, 1))

\* C13: the abn cascade tries its four rules in order and looks only at the
\* first match of each: the field is the space-stripped first match of the
\* earliest rule whose first match passes the checksum, a failed first match
\* sends the cascade to the next rule and never to a later match of the same
\* rule, and the field is absent when no rule's first match passes.
C13_AbnCascade ==
    (pc # "start" /\ parsed.tag # "Err") =>
        LET txt == Trim(text)
            candidate == [k \in Matching(abn_patterns, txt) |->
                             RemoveChar(FirstCapture(abn_patterns, txt, k), " ")]
            passing == {k \in DOMAIN candidate :
                           ElevenDigits(candidate[k]) /\ WeightedSum(candidate[k]) % 89 = 0}
        IN /\ parsed.tag = "Ok"
           /\ parsed.invoice.abn.some <=> passing # {}
           /\ parsed.invoice.abn.some => parsed.invoice.abn.value = candidate[Min(passing)]

\* the comma-stripped captures of every amount rule in the text
AmountCaptures(txt) ==
    UNION {LET m == CapturesIter(amount_patterns[k], txt)
           IN {RemoveChar(Group1(txt, m[j]), ",") : j \in DOMAIN m}
           : k \in DOMAIN amount_patterns}

\* C9: the amount list holds every capture of every amount rule at most once,
\* only values v with 0 < v < 1,000,000, in non-increasing order, so that its
\* first element, the total amount, is the maximum of the accepted captures
\* (110.00 for the Subtotal / GST / Total text).
C9_AmountList ==
    (pc = "parsed" /\ parsed.tag = "Ok") =>
        LET list == parsed.amounts
            accepted == {c \in AmountCaptures(parsed.invoice.raw_text) :
                            ParseCents(c) > 0 /\ ParseCents(c) < MillionCents}
        IN /\ Len(list) = Cardinality(accepted)
           /\ \A c \in accepted :
                 Cardinality({i \in DOMAIN list : list[i].value = ParseCents(c)})
                 = Cardinality({c2 \in accepted : ParseCents(c2) = ParseCents(c)})
           /\ \A i \in DOMAIN list : list[i].value > 0 /\ list[i].value < MillionCents
           /\ \A i, j \in DOMAIN list : i < j => list[i].value >= list[j].value
           /\ list # <<>> =>
                 /\ parsed.invoice.total_amount = list[1]
                 /\ list[1].value = Max({ParseCents(c) : c \in accepted})
           /\ list = <<>> => ~parsed.invoice.total_amount.some
           /\ text = "Subtotal: $100.00\nGST: $10.00\nTotal: $110.00" =>
                 parsed.invoice.total_amount.value = 11000

\* several amounts were accepted, out of order in the text, and others were rejected
C9_Witness ==
    /\ pc = "parsed"
    /\ parsed.tag = "Ok"
    /\ Len(parsed.amounts) >= 3
    /\ Contains(text, "$0.00")
    /\ Contains(text, "$1,000,000.00")

\* C14: the gst amount is present if and only if the amount list is non-empty,
\* the text contains "gst" in any letter case and some amount after the first is
\* less than 20% of the largest; it is then the first such amount.  When it is
\* present the total amount is present and the gst value is strictly below 0.2
\* times the total value.
C14_GstAmount ==
    (pc = "parsed" /\ parsed.tag = "Ok") =>
        LET list == parsed.amounts
            gst == parsed.invoice.gst_amount
            below == {j \in 2..Len(list) : 5 * list[j].value < list[1].value}
        IN /\ gst.some <=> (Len(list) > 0
                            /\ Contains(ToLowercase(parsed.invoice.raw_text), "gst")
                            /\ below # {})
           /\ gst.some =>
                 /\ gst = list[Min(below)]
                 /\ parsed.invoice.total_amount.some
                 /\ 5 * gst.value < parsed.invoice.total_amount.value

\* every capture of every date rule: [rule, index of the match within the rule, str]
DateCaptures(txt) ==
    UNION {LET m == CapturesIter(date_patterns[k], txt)
           IN {[rule |-> k, index |-> j, str |-> Group1(txt, m[j])] : j \in DOMAIN m}
           : k \in DOMAIN date_patterns}

\* where a string is captured first: by the earliest rule, and within it by the
\* earliest match
FirstCaptured(captures, str) ==
    Min({c.rule * 1000 + c.index : c \in {d \in captures : d.str = str}})

\* C15: the date list holds every capture of every date rule, over the whole
\* cascade, no string twice, each with confidence 0.80, in the order of rule
\* priority and within a rule of position in the text; invoice date is the first
\* element and due date the second, so a due date is present only with an invoice
\* date and the two never hold the same string.
C15_DateList ==
    (pc = "parsed" /\ parsed.tag = "Ok") =>
        LET list == parsed.dates
            inv == parsed.invoice
            captures == DateCaptures(inv.raw_text)
        IN /\ {list[i].value : i \in DOMAIN list} = {c.str : c \in captures}
           /\ \A i, j \in DOMAIN list :
                 i < j => /\ list[i].value # list[j].value
                          /\ FirstCaptured(captures, list[i].value)
                             < FirstCaptured(captures, list[j].value)
           /\ \A i \in DOMAIN list : list[i].confidence = Conf(80)
           /\ inv.invoice_date = IF Len(list) >= 1 THEN list[1] ELSE None
           /\ inv.due_date = IF Len(list) >= 2 THEN list[2] ELSE None
           /\ inv.due_date.some =>
                 (inv.invoice_date.some /\ inv.due_date.value # inv.invoice_date.value)

\* two rules capture the same date, a later rule another one, and both fields are set
C15_Witness ==
    /\ pc = "parsed"
    /\ parsed.tag = "Ok"
    /\ parsed.invoice.due_date.some
    /\ Cardinality(DateCaptures(parsed.invoice.raw_text)) > Len(parsed.dates)
    /\ \E c \in DateCaptures(parsed.invoice.raw_text) :
           c.index > 1 /\ c.str = parsed.invoice.due_date.value

\* the vendor field according to a reading of the heuristic: the first line, among
\* the first 10 trimmed lines longer than skip characters, that starts with no
\* non-vendor keyword, is not made of digits, "-" and "/" only, has lo to hi
\* characters and contains a letter
VendorIsFirstOf(inv, skip, lo, hi) ==
    LET ls == Lines(inv.raw_text)
        line == [i \in DOMAIN ls |-> Trim(ls[i])]
        counted == {i \in DOMAIN ls : Len(line[i]) > skip}
        scanned == {i \in counted : Cardinality({j \in counted : j <= i}) <= 10}
        qualifies(l) ==
            /\ \A k \in DOMAIN non_vendor_prefixes :
                  ~StartsWith(ToLowercase(l), non_vendor_prefixes[k])
            /\ ~AllChars(l, Digit \cup {"-", "/"})
            /\ Len(l) >= lo /\ Len(l) <= hi
            /\ AnyChar(l, Alpha)
        found == {i \in scanned : qualifies(line[i])}
    IN /\ inv.vendor_name.some <=> found # {}
       /\ inv.vendor_name.some => inv.vendor_name.value = line[Min(found)]

\* C16 as stated: every non-empty line counts toward the 10 and a vendor line has
\* 3 to 100 characters.
C16_VendorAsStated ==
    (pc = "parsed" /\ parsed.tag = "Ok") => VendorIsFirstOf(parsed.invoice, 0, 3, 100)

\* C16: the vendor name is the first line, among the first 10 trimmed lines that
\* are longer than 2 characters, that starts with no non-vendor keyword, is not
\* made only of digits, "-" and "/", is 4 to 99 characters long and contains an
\* alphabetic character; the field is absent when none of those lines qualifies.
C16_VendorFirstCandidate ==
    (pc = "parsed" /\ parsed.tag = "Ok") => VendorIsFirstOf(parsed.invoice, 2, 4, 99)

\* ten scanned lines do not qualify and an eleventh line would
C16_Witness ==
    /\ pc = "parsed"
    /\ parsed.tag = "Ok"
    /\ ~parsed.invoice.vendor_name.some
    /\ Len(Lines(text)) = 11
    /\ Contains(text, "Acme Pty Ltd")

\* the lines of a text that give a line item, in order: item r comes from line r
\* of these
ItemLines(txt) == SelectSeq(Lines(txt), LAMBDA l : LineItemOf(l) # <<>>)

\* the positive amounts of a line in cents, in the order found
PositiveAmounts(line) ==
    LET m == CapturesIter(line_amount_pattern, line)
        cents == [j \in DOMAIN m |-> ParseCents(RemoveChar(Group1(line, m[j]), ","))]
    IN SelectSeq(cents, LAMBDA a : a > 0)

\* total, unit price and quantity of every item follow the rule; zero_quantity
\* says what the unit price is for a single amount and a quantity of zero
ItemsFollowRule(inv, zero_quantity(_)) ==
    LET from == ItemLines(inv.raw_text)
    IN /\ Len(inv.line_items) <= Len(from)
       /\ \A r \in DOMAIN inv.line_items :
             LET item == inv.line_items[r]
                 line == Trim(from[r])
                 amounts == PositiveAmounts(line)
                 marker == Captures(qty_pattern, line)
                 qty == ParseDecimal(Group1(line, marker))
             IN /\ item.total = amounts[Len(amounts)]
                /\ item.quantity.some <=> marker.end # 0
                /\ item.quantity.some => item.quantity.value = qty
                /\ item.unit_price.some
                /\ item.unit_price.value =
                      IF Len(amounts) >= 2 THEN Rat(amounts[Len(amounts) - 1], 1)
                      ELSE IF marker.end # 0 /\ qty.n # 0 THEN Rat(item.total * qty.d, qty.n)
                      ELSE IF marker.end # 0 THEN zero_quantity(item.total)
                      ELSE Rat(item.total, 1)

TotalItself(total) == Rat(total, 1)
Zero(total) == Rat(0, 1)

\* C17 as stated: the unit price is the total itself both when no quantity was
\* parsed and when the quantity parsed is zero.
C17_UnitPriceAsStated ==
    (pc = "parsed" /\ parsed.tag = "Ok") => ItemsFollowRule(parsed.invoice, TotalItself)

\* C17: for every line item the total is the last positive amount of its line and
\* the unit price is the second-to-last amount when there are two or more,
\* otherwise total / quantity for a nonzero quantity, otherwise 0.0 for a quantity
\* of zero, otherwise (no quantity) the total itself; the quantity is set only
\* when a quantity marker was parsed.
C17_UnitPrice ==
    (pc = "parsed" /\ parsed.tag = "Ok") => ItemsFollowRule(parsed.invoice, Zero)

\* items with a unit price of 0.0 for a zero quantity and of total / quantity for
\* a whole and for a fractional quantity
C17_Witness ==
    /\ pc = "parsed"
    /\ parsed.tag = "Ok"
    /\ \E r \in DOMAIN parsed.invoice.line_items :
           LET item == parsed.invoice.line_items[r]
           IN item.total = 500 /\ item.quantity.some /\ item.unit_price.value = Rat(0, 1)
    /\ \E r \in DOMAIN parsed.invoice.line_items :
           LET item == parsed.invoice.line_items[r]
           IN item.total = 1000 /\ item.quantity.some /\ item.unit_price.value = Rat(250, 1)
    /\ \E r \in DOMAIN parsed.invoice.line_items :
           LET item == parsed.invoice.line_items[r]
           IN item.total = 10000 /\ item.unit_price.value = Rat(4000, 1)

\* the description of a trimmed line whose first positive amount is first: the text
\* before the amount as format!("{:.2}") prints it (the whole line if that is
\* not found), trimmed, control characters and double spaces replaced by a space
CleanedDescription(line, first) ==
    LET pos == Find(line, Format2(first))
        before == IF pos = 0 THEN line ELSE Trim(SubSeq(line, 1, pos - 1))
    IN Trim(ReplaceDoubleSpace(ReplaceChars(before, AsciiControl, " ")))

\* a line gives an item: at least 10 characters, a positive money amount, and a
\* cleaned description that is non-empty and shorter than 200 characters
YieldsItem(raw) ==
    LET line == Trim(raw)
        amounts == PositiveAmounts(line)
    IN /\ Len(line) >= 10
       /\ Len(amounts) > 0
       /\ Len(CleanedDescription(line, amounts[1])) \in 1..199

\* C18: line items come from each line on its own, in line order: a line gives
\* an item only if it has at least 10 characters, contains a (positive) money
\* amount and its cleaned description is non-empty and shorter than 200
\* characters; the confidence is 0.70 with a quantity and 0.50 without; the
\* output is the first 50 such items, and more than 50 is not an error.
C18_LineItems ==
    (pc = "parsed" /\ parsed.tag # "Panic") =>
        LET from == SelectSeq(Lines(Trim(text)), YieldsItem)
            items == parsed.invoice.line_items
        IN /\ Len(from) > 50 => parsed.tag = "Ok"
           /\ parsed.tag = "Ok" =>
                 /\ Len(items) = IF Len(from) > 50 THEN 50 ELSE Len(from)
                 /\ \A r \in DOMAIN items :
                       LET line == Trim(from[r])
                       IN /\ items[r].description
                             = CleanedDescription(line, PositiveAmounts(line)[1])
                          /\ items[r].total = PositiveAmounts(line)[Len(PositiveAmounts(line))]
                          /\ items[r].confidence =
                                IF Captures(qty_pattern, line).end # 0 THEN Conf(70) ELSE Conf(50)

\* 51 lines give an item and 50 items are returned
C18_Witness ==
    /\ pc = "parsed"
    /\ parsed.tag = "Ok"
    /\ Len(SelectSeq(Lines(text), YieldsItem)) = 51
    /\ Len(parsed.invoice.line_items) = 50

CountedFields == {"abn", "invoice_number", "invoice_date", "total_amount", "vendor_name"}

RECURSIVE SumOfConfidences(_, _)
SumOfConfidences(inv, names) ==
    IF names = {} THEN 0
    ELSE LET f == CHOOSE x \in names : TRUE
         IN inv[f].confidence + SumOfConfidences(inv, names \ {f})

\* r is the mean of the confidences of the counted fields that are present, 0 if
\* there is none, with 0.10 added and capped at 1.0 when abn, invoice number and
\* total amount are all present
IsMeanWithBoost(inv, r) ==
    LET present == {f \in CountedFields : inv[f].some}
        n == Cardinality(present)
        boost == IF {"abn", "invoice_number", "total_amount"} \subseteq present
                 THEN Conf(10) ELSE 0
        scaled == SumOfConfidences(inv, present) + n * boost
    IN IF n = 0 THEN r = 0
       ELSE IF scaled >= n * One THEN r = One
       ELSE r * n = scaled

\* C10: in a record returned by parse_from_text every present field's and every
\* line item's confidence lies in [0,1], and so does the overall confidence,
\* which is the value calculate_confidence gives for the record's fields.
C10_ConfidenceRange ==
    parsed.tag = "Ok" =>
        LET inv == parsed.invoice
        IN /\ \A f \in CountedFields \cup {"due_date", "gst_amount", "payment_terms"} :
                 inv[f].some => inv[f].confidence \in 0..One
           /\ \A i \in DOMAIN inv.line_items : inv.line_items[i].confidence \in 0..One
           /\ inv.overall_confidence \in 0..One
           /\ IsMeanWithBoost(inv, inv.overall_confidence)
           /\ pc = "validated" => record.overall_confidence = inv.overall_confidence

\* a record with several counted fields, the boost, and line items
C10_Witness ==
    /\ parsed.tag = "Ok"
    /\ parsed.invoice.abn.some
    /\ parsed.invoice.invoice_number.some
    /\ parsed.invoice.total_amount.some
    /\ Len(parsed.invoice.line_items) > 0
    /\ parsed.invoice.overall_confidence > Conf(90)

\* C20: in a record returned by parse_from_text the overall confidence is 0.0,
\* when none of abn, invoice number, invoice date, total amount and vendor name
\* is present, or at least 0.70; so validate_invoice on that record says valid
\* if and only if a total amount was extracted, "manual_entry" if and only if
\* none of the five fields was, and "accept" if and only if abn, invoice number,
\* invoice date and total amount all were.
C20_ExtractThenValidate ==
    /\ parsed.tag = "Ok" =>
          LET inv == parsed.invoice
              none == \A f \in CountedFields : ~inv[f].some
          IN IF none THEN inv.overall_confidence = 0
             ELSE inv.overall_confidence >= Conf(70)
    /\ pc = "validated" =>
          /\ ~verdict.panic
          /\ verdict.is_valid <=> record.total_amount.some
          /\ verdict.suggested_action = "manual_entry"
             <=> \A f \in CountedFields : ~record[f].some
          /\ verdict.suggested_action = "accept"
             <=> \A f \in {"abn", "invoice_number", "invoice_date", "total_amount"} :
                    record[f].some

\* a record with the four required fields was extracted and accepted
C20_Witness ==
    /\ pc = "validated"
    /\ verdict.suggested_action = "accept"
    /\ verdict.is_valid
    /\ \A f \in {"abn", "invoice_number", "invoice_date", "total_amount"} : record[f].some
    /\ record.overall_confidence >= Conf(70)

-----------------------------------------------------------------------------
(* Properties of validate_invoice, checked under SpecValidate *)

RequiredFields == {"abn", "invoice_number", "invoice_date", "total_amount"}

\* C5: validate_invoice reports is_valid = true if and only if the total amount
\* is present and the overall confidence is at least 0.50, whether or not abn,
\* invoice number or invoice date are missing.
C5_ValidIffTotalAndHalf ==
    pc = "validated" =>
        ((~verdict.panic /\ verdict.is_valid)
         <=> (record.total_amount.some /\ record.overall_confidence >= Half))

\* C6: the suggested action is "accept" exactly when no required field is
\* missing and the overall confidence is at least 0.75, otherwise "review"
\* exactly when it is at least 0.50, otherwise "manual_entry"; validate_invoice
\* returns one of the three for every record and never fails.
C6_SuggestedAction ==
    pc = "validated" =>
        /\ ~verdict.panic
        /\ verdict.suggested_action =
              IF (\A f \in RequiredFields : record[f].some)
                 /\ record.overall_confidence >= ThreeQuarters
              THEN "accept"
              ELSE IF record.overall_confidence >= Half THEN "review"
              ELSE "manual_entry"

\* C19: the verdict is consistent for every record: "accept" implies is_valid,
\* is_valid implies "accept" or "review", "manual_entry" implies not is_valid,
\* and a record that is not valid gets an action other than "manual_entry" only
\* when its confidence is at least 0.50 and it has no total amount: it then gets
\* "review".
C19_VerdictConsistent ==
    (pc = "validated" /\ ~verdict.panic) =>
        /\ verdict.suggested_action = "accept" => verdict.is_valid
        /\ verdict.is_valid => verdict.suggested_action \in {"accept", "review"}
        /\ verdict.suggested_action = "manual_entry" => ~verdict.is_valid
        /\ (~verdict.is_valid /\ verdict.suggested_action # "manual_entry")
           <=> (record.overall_confidence >= Half /\ ~record.total_amount.some)
        /\ (~verdict.is_valid /\ verdict.suggested_action # "manual_entry")
           => verdict.suggested_action = "review"

\* a record without a total amount and with a confidence of 0.50 or more: not
\* valid, and "review"
C19_Witness ==
    /\ pc = "validated"
    /\ ~verdict.panic
    /\ ~verdict.is_valid
    /\ verdict.suggested_action = "review"
    /\ record.abn.some /\ record.invoice_number.some /\ record.invoice_date.some
    /\ record.overall_confidence = One

-----------------------------------------------------------------------------
(* Properties of calculate_confidence, checked under SpecConfidence *)

\* C7: the overall confidence is the mean of the confidences of the fields
\* present among abn, invoice number, invoice date, total amount and vendor name
\* (due date, gst amount, payment terms and line items never counted), 0.0 when
\* none is present, with 0.10 added, capped at 1.0, exactly when abn, invoice
\* number and total amount are all present; a record with only a total amount of
\* confidence 0.75 has overall confidence 0.75.
C7_MeanOfPresent ==
    pc = "scored" =>
        /\ IsMeanWithBoost(record, record.overall_confidence)
        /\ ({f \in CountedFields : record[f].some} = {"total_amount"}
            /\ record.total_amount.confidence = Conf(75))
           => record.overall_confidence = Conf(75)

\* the boost applies and reaches the cap, one counted field is absent and the
\* uncounted ones are present
C7_Witness ==
    /\ pc = "scored"
    /\ record.abn.some /\ record.invoice_number.some /\ record.total_amount.some
    /\ ~record.vendor_name.some
    /\ record.gst_amount.some /\ Len(record.line_items) > 0
    /\ record.invoice_date.some /\ record.invoice_date.confidence < One
    /\ record.overall_confidence = One


====
